---- MODULE Spec2Model ----
(***************************************************************************)
(* Settlement detail page of the ShareX settlement dashboard               *)
(* (web/dashboard/src/app/projects/settlement/[id]/page.tsx):              *)
(* cross-validation of a company settlement (validateSettlement) and the   *)
(* edit session that recomputes it (handleStartEdit, handleEditCourse,     *)
(* handleApplyEdits), together with the data load that feeds them.         *)
(*                                                                         *)
(* The save, approve, unapprove and email handlers are modelled with their *)
(* requests in flight, and loadData with the period of the URL it was      *)
(* started for; remarks and the email log are left out.  The list page     *)
(* (SettlementListPage) is modelled for its upload, its save and its bulk  *)
(* email modal; both pages share the session cache.                        *)
(*                                                                         *)
(* Money is an integer number of won.  A ratio is kept as an integer       *)
(* percentage (0.5 is 50), so contribution * ratio is the rational         *)
(* contribution * pct / RatioScale.  The ratios used are 0, 1/2 and 1,     *)
(* for which the IEEE-754 product of the source is exact, so that          *)
(* Math.round is modelled without floating point error.                    *)
(***************************************************************************)
EXTENDS Integers, Sequences, FiniteSets, TLC

VARIABLES
    loading,            \* useState(true), page.tsx:138
    error,              \* useState<string|null>, page.tsx:139
    settlement,         \* CompanySettlement | null, page.tsx:135
    companyInfo,        \* CompanyInfo | null, page.tsx:136
    fullData,           \* ParseResponse | null, page.tsx:137
    validationIssues,   \* ValidationIssue[], page.tsx:148
    isEditing,          \* page.tsx:151
    editCourses,        \* CourseSummary[], page.tsx:152
    saveMessage,        \* page.tsx:145
    approvalStatus,     \* ApprovalStatus | null, page.tsx:155
    archivePending,     \* loadData waits at `await loadArchive`, page.tsx:260
    cache,              \* sessionStorage["settlementData"]
    isSaving,           \* page.tsx:144
    saveCall,           \* handleSave's saveArchive in flight and how it will end
    isApproving,        \* page.tsx:157
    approveCall,        \* the await handleApprove / handleUnapprove stands at
    savedArchive,       \* what the page's saveArchive calls wrote last, or Null
    serverApproved,     \* the server's approval of companyId
    listData,           \* list page: data, ParseResponse | null, part_004:20
    isUploading,        \* list page, part_004:21
    listError,          \* list page: error, part_004:22
    listApprovalStatus, \* list page: approvalStatus, the approved ids, part_004:28
    parseInFlight,      \* list page: parsePdf requests awaiting their answer
    listMounted,        \* list page: the mount effect has run, part_004:33-48
    statusPending,      \* list page: getApprovalStatus requests awaiting theirs
    statusStale,        \* list page: those of them sent before the last upload
    listIsSaving,       \* list page: isSaving, part_004:23
    listSaveCall,       \* list page: handleSave's saveArchive and how it will end
    savedMessage,       \* list page, part_004:24
    showEmailModal,     \* list page, part_004:31
    selected,           \* bulk email modal: the ids ticked, part_004:305-307
    isSending,          \* bulk email modal, part_004:308
    bulkResult,         \* bulk email modal: result is set, part_004:309
    bulkCall,           \* bulk email modal: sendBulkEmail in flight
    bulkRecipients,     \* the company ids of the last sendBulkEmail call
    costLine,           \* engine: the cost line classified last, or Null
    classification,     \* engine: its classification, or Null
    indirectPool,       \* engine: the indirect pool apportioned last
    courseList,         \* engine: the courses it was apportioned over
    apportionment,      \* engine: its outcome and the share of each course
    ledgerPool,         \* engine: the indirect pool of the ledger computed last
    ledgerCourses,      \* engine: the courses it was computed for
    ledger,             \* engine: its outcome and the ledger line of each course
    routePeriod,        \* the period of the URL (searchParams), page.tsx:132
    loadStarted,        \* the load effect has run for this period, page.tsx:242-313
    loadsInFlight,      \* the loadArchive requests of loadData awaiting an answer
    isSendingEmail,     \* page.tsx:162
    emailCall           \* handleSendEmail's sendEmail in flight

\* the server requests of the detail page and the server's state
requestVars == <<isSaving, saveCall, isApproving, approveCall, savedArchive,
                 serverApproved>>

\* the list page
\* the bulk email modal of the list page
modalVars == <<showEmailModal, selected, isSending, bulkResult, bulkCall, bulkRecipients>>

\* the save button of the list page
listSaveVars == <<listIsSaving, listSaveCall, savedMessage>>

listVars == <<listData, isUploading, listError, listApprovalStatus, parseInFlight,
              listMounted, statusPending, statusStale, modalVars, listSaveVars>>

\* the settlement engine (cost classifier and apportionment)
engineVars == <<costLine, classification, indirectPool, courseList, apportionment,
                ledgerPool, ledgerCourses, ledger>>

\* the email button of the detail page
emailVars == <<isSendingEmail, emailCall>>

\* the route of the detail page and the loads started for it
routeVars == <<routePeriod, loadStarted, loadsInFlight>>

\* the detail page
detailVars == <<loading, error, settlement, companyInfo, fullData, validationIssues,
                isEditing, editCourses, saveMessage, approvalStatus,
                archivePending>>

vars == <<detailVars, cache, requestVars, listVars, engineVars, routeVars, emailVars>>

-----------------------------------------------------------------------------
(* Bounds and program constants *)

MaxCourses == 2
MaxValue == 1

\* the tolerance one won wider
thresholdOffByOne == 2 + 1
threshold == 2
RatioScale == 100
RevenueShareRatioPct == 75

Null == [null |-> TRUE]

companyId == "union1"
OtherCompanyId == "plusx"
CompanyIds == {companyId, OtherCompanyId}

Ratios == {0, 50, 100}
EditValues == 0..MaxValue

-----------------------------------------------------------------------------
(* Arithmetic of the source *)

Abs(x) == IF x < 0 THEN -x ELSE x

\* Math.round(n / d) for d > 0: the nearest integer, a half going towards
\* +infinity (Math.round(0.5) = 1, Math.round(2.5) = 3, Math.round(-0.5) = 0).
MathRound(n, d) == (2 * n + d) \div (2 * d)

\* the share with a ratio of 0 taken for a missing one (ratio || 0.5)
RoundShareDefaultRatio(x, pct) ==
    MathRound(x * (IF pct = 0 THEN 50 ELSE pct), RatioScale)

\* Math.round(x * ratio) with ratio = pct / RatioScale.
RoundShare(x, pct) == MathRound(x * pct, RatioScale)

\* courses.reduce((acc, c) => acc + c[field], 0)
SumField(cs, field) ==
    LET S[i \in 0..Len(cs)] == IF i = 0 THEN 0 ELSE S[i - 1] + cs[i][field]
    IN  S[Len(cs)]

-----------------------------------------------------------------------------
(* validateSettlement, page.tsx:46-124.  A ValidationIssue is the record    *)
(* [field, course, expected, actual, diff]; the message is a function of    *)
(* these and is left out.  field names the check:                           *)
(*   "revenue"              매출액           (course sum vs company total)    *)
(*   "ad_cost"              마케팅비         (course sum vs company total)    *)
(*   "contribution"         공헌이익         (course sum vs company total)    *)
(*   "contribution_formula" 공헌이익 공식    (contribution vs revenue-ad_cost)*)
(*   "settlement_amount"    수익쉐어 금액    (amount vs round(contrib*ratio)) *)
(*   "course_contribution"  [name] 공헌이익  (per course; course = its id)    *)
(* course is 0 for the company-level checks.                                *)

Issue(field, course, expected, actual, diff) ==
    [field |-> field, course |-> course, expected |-> expected,
     actual |-> actual, diff |-> diff]

\* if (Math.abs(a - b) > threshold) issues.push(issue)
PushIf(a, b, issue) == IF Abs(a - b) > threshold THEN <<issue>> ELSE <<>>

RevenueSumCheck(s) ==
    LET sumRevenue == SumField(s.courses, "revenue")
    IN  PushIf(sumRevenue, s.revenue,
               Issue("revenue", 0, s.revenue, sumRevenue, sumRevenue - s.revenue))

AdCostSumCheck(s) ==
    LET sumAdCost == SumField(s.courses, "ad_cost")
    IN  PushIf(sumAdCost, s.ad_cost,
               Issue("ad_cost", 0, s.ad_cost, sumAdCost, sumAdCost - s.ad_cost))

ContributionSumCheck(s) ==
    LET sumContribution == SumField(s.courses, "contribution")
    IN  PushIf(sumContribution, s.contribution,
               Issue("contribution", 0, s.contribution, sumContribution,
                     sumContribution - s.contribution))

\* the formula check with the sign of diff turned round (expected - actual)
ContributionFormulaCheckFlipped(s) ==
    LET expectedContribution == s.revenue - s.ad_cost
    IN  PushIf(expectedContribution, s.contribution,
               Issue("contribution_formula", 0, expectedContribution, s.contribution,
                     expectedContribution - s.contribution))

ContributionFormulaCheck(s) ==
    LET expectedContribution == s.revenue - s.ad_cost
    IN  PushIf(expectedContribution, s.contribution,
               Issue("contribution_formula", 0, expectedContribution, s.contribution,
                     s.contribution - expectedContribution))

SettlementAmountCheck(s) ==
    LET expectedSettlement == RoundShare(s.contribution, s.union_payout_ratio)
    IN  PushIf(expectedSettlement, s.settlement_amount,
               Issue("settlement_amount", 0, expectedSettlement, s.settlement_amount,
                     s.settlement_amount - expectedSettlement))

\* the per-course check with the size of the difference as diff, as in the
\* message (Math.abs)
CourseCheckAbsDiff(c) ==
    LET cExpected == c.revenue - c.ad_cost
    IN  PushIf(cExpected, c.contribution,
               Issue("course_contribution", c.course_id, cExpected, c.contribution,
                     Abs(c.contribution - cExpected)))

CourseCheck(c) ==
    LET cExpected == c.revenue - c.ad_cost
    IN  PushIf(cExpected, c.contribution,
               Issue("course_contribution", c.course_id, cExpected, c.contribution,
                     c.contribution - cExpected))

\* s.courses.forEach(...), in course order
CourseChecks(s) ==
    LET R[i \in 0..Len(s.courses)] ==
            IF i = 0 THEN <<>> ELSE R[i - 1] \o CourseCheck(s.courses[i])
    IN  R[Len(s.courses)]

\* the validator returning at its first failing check
validateSettlementShortCircuit(s) ==
    LET all == RevenueSumCheck(s) \o AdCostSumCheck(s) \o ContributionSumCheck(s)
                 \o ContributionFormulaCheck(s) \o SettlementAmountCheck(s)
                 \o CourseChecks(s)
    IN  IF all = <<>> THEN <<>> ELSE <<Head(all)>>

validateSettlement(s) ==
    RevenueSumCheck(s) \o AdCostSumCheck(s) \o ContributionSumCheck(s)
        \o ContributionFormulaCheck(s) \o SettlementAmountCheck(s) \o CourseChecks(s)

-----------------------------------------------------------------------------
(* Edit session, page.tsx:167-240 *)

\* the setEditCourses updater of handleEditCourse, page.tsx:179-187
EditCourse(prev, idx, field, value) ==
    LET course == [prev[idx] EXCEPT ![field] = value]
    IN  [prev EXCEPT ![idx] =
            [course EXCEPT !.contribution = course.revenue - course.ad_cost]]

\* updatedCourses, page.tsx:202-205
UpdatedCourses(ec, ratio) ==
    [i \in 1..Len(ec) |->
        [ec[i] EXCEPT !.revenue_share = RoundShare(ec[i].contribution, ratio)]]

\* the recomputation that leaves the company's revenue and ad cost as loaded
UpdatedSettlementStaleTotals(s, ec) ==
    LET ratio == s.union_payout_ratio
        newContribution == SumField(ec, "contribution")
        newSettlementAmount == RoundShare(newContribution, ratio)
        updatedCourses == UpdatedCourses(ec, ratio)
    IN  [s EXCEPT !.contribution = newContribution,
                  !.settlement_amount = newSettlementAmount,
                  !.union_payout = newSettlementAmount,
                  !.revenue_share = SumField(updatedCourses, "revenue_share"),
                  !.courses = updatedCourses]

\* updatedSettlement, page.tsx:193-216
UpdatedSettlement(s, ec) ==
    LET ratio == s.union_payout_ratio
        newRevenue == SumField(ec, "revenue")
        newAdCost == SumField(ec, "ad_cost")
        newContribution == SumField(ec, "contribution")
        newSettlementAmount == RoundShare(newContribution, ratio)
        updatedCourses == UpdatedCourses(ec, ratio)
    IN  [s EXCEPT !.revenue = newRevenue,
                  !.ad_cost = newAdCost,
                  !.contribution = newContribution,
                  !.settlement_amount = newSettlementAmount,
                  !.union_payout = newSettlementAmount,
                  !.revenue_share = SumField(updatedCourses, "revenue_share"),
                  !.courses = updatedCourses]

\* Object.values(companies).reduce((s, c) => s + c[field], 0)
RECURSIVE SumCompanies(_, _, _)
SumCompanies(companies, ids, field) ==
    IF ids = {} THEN 0
    ELSE LET c == CHOOSE x \in ids : TRUE
         IN  companies[c][field] + SumCompanies(companies, ids \ {c}, field)

\* the summary kept up by adding the company's new figures to the old totals
UpdatedFullDataAccumulating(fd, us) ==
    [fd EXCEPT
        !.companies = [fd.companies EXCEPT ![companyId] = us],
        !.summary =
            [total_revenue |-> fd.summary.total_revenue + us.revenue,
             total_ad_cost |-> fd.summary.total_ad_cost + us.ad_cost,
             total_contribution |-> fd.summary.total_contribution + us.contribution,
             total_settlement |-> fd.summary.total_settlement + us.settlement_amount]]

\* updatedFullData, page.tsx:219-231
UpdatedFullData(fd, us) ==
    LET updatedCompanies == [fd.companies EXCEPT ![companyId] = us]
        ids == DOMAIN updatedCompanies
    IN  [fd EXCEPT
            !.companies = updatedCompanies,
            !.summary =
                [total_revenue |-> SumCompanies(updatedCompanies, ids, "revenue"),
                 total_ad_cost |-> SumCompanies(updatedCompanies, ids, "ad_cost"),
                 total_contribution |->
                     SumCompanies(updatedCompanies, ids, "contribution"),
                 total_settlement |->
                     SumCompanies(updatedCompanies, ids, "settlement_amount")]]

-----------------------------------------------------------------------------
(* Data the page can be given: the ParseResponse of the session cache or   *)
(* of the archive.  A course is built from a shape [revenue, ad_cost, d],  *)
(* d being what its contribution is off revenue - ad_cost by; a company's  *)
(* totals are the course sums plus the deltas dr, da, dm, and its          *)
(* settlement amount is the rounded share plus ds.                         *)

period == "2025-Q4"

MkCourse(i, sh, pct) ==
    [course_id |-> i, revenue |-> sh.revenue, ad_cost |-> sh.ad_cost,
     contribution |-> sh.revenue - sh.ad_cost + sh.d,
     revenue_share |-> RoundShare(sh.revenue - sh.ad_cost + sh.d, pct)]

MkSettlement(shapes, pct, dr, da, dm, ds) ==
    LET courses == [i \in 1..Len(shapes) |-> MkCourse(i, shapes[i], pct)]
        contribution == SumField(courses, "contribution") + dm
        amount == RoundShare(contribution, pct) + ds
    IN  [revenue |-> SumField(courses, "revenue") + dr,
         ad_cost |-> SumField(courses, "ad_cost") + da,
         contribution |-> contribution,
         revenue_share |-> SumField(courses, "revenue_share"),
         settlement_amount |-> amount,
         union_payout |-> amount,
         union_payout_ratio |-> pct,
         courses |-> courses]

\* the operating entity: union_payout_ratio 0, nothing paid out
OtherCompany == MkSettlement(<<[revenue |-> 3, ad_cost |-> 1, d |-> 0]>>, 0, 0, 0, 0, 0)

MkCompanyInfo(s) ==
    [revenue_share_ratio |-> RevenueShareRatioPct,
     union_payout_ratio |-> s.union_payout_ratio,
     contact_email |-> "contact@company"]

FullDataOf(s) ==
    LET companies == [c \in CompanyIds |-> IF c = companyId THEN s ELSE OtherCompany]
    IN  [period |-> period,
         companies |-> companies,
         companies_info |-> [c \in CompanyIds |-> MkCompanyInfo(companies[c])],
         summary |->
             [total_revenue |-> SumCompanies(companies, CompanyIds, "revenue"),
              total_ad_cost |-> SumCompanies(companies, CompanyIds, "ad_cost"),
              total_contribution |->
                  SumCompanies(companies, CompanyIds, "contribution"),
              total_settlement |->
                  SumCompanies(companies, CompanyIds, "settlement_amount")]]

\* the course lists of the given lengths over the given shapes
ShapeLists(Shapes, Lengths) == UNION {[1..n -> Shapes] : n \in Lengths}

\* Settlements for the validator: every check can be off by 0, by the
\* tolerance, by one more than the tolerance, and the margin by 500.
ValidatorShapes ==
    {[revenue |-> 4, ad_cost |-> 1, d |-> 0], [revenue |-> 1, ad_cost |-> 0, d |-> 2],
     [revenue |-> 4, ad_cost |-> 1, d |-> -2], [revenue |-> 1, ad_cost |-> 0, d |-> 3],
     [revenue |-> 4, ad_cost |-> 1, d |-> -3], [revenue |-> 4, ad_cost |-> 1, d |-> 500]}

ValidatorCandidates ==
    {MkSettlement(sh, pct, dr, da, dm, ds) :
        sh \in ShapeLists(ValidatorShapes, 0..MaxCourses), pct \in Ratios,
        dr \in {-3, 0, 2}, da \in {-2, 0, 3}, dm \in {-3, 0, 2, 500},
        ds \in {-3, -2, 0, 2, 3}}

\* revenue and ad cost are amounts, never negative; a contribution and a
\* settlement amount may be
ValidatorSettlements ==
    {s \in ValidatorCandidates : s.revenue >= 0 /\ s.ad_cost >= 0}

\* Settlements for the edit session: consistent courses and courses whose
\* reported contribution is not revenue - ad_cost, with totals that may be
\* off the course sums.
EditCourseCounts == {0, 1, 2}

EditShapes ==
    {[revenue |-> 1, ad_cost |-> 0, d |-> 0], [revenue |-> 0, ad_cost |-> 0, d |-> 3]}

EditSettlements ==
    {MkSettlement(sh, pct, dr, 0, 0, 0) :
        sh \in ShapeLists(EditShapes, EditCourseCounts), pct \in Ratios, dr \in {0, 3}}

-----------------------------------------------------------------------------
(* The page *)

\* the state of a page just constructed, but for the session cache and the URL
InitControls ==
    /\ loading = TRUE
    /\ error = "none"
    /\ settlement = Null
    /\ companyInfo = Null
    /\ fullData = Null
    /\ validationIssues = <<>>
    /\ isEditing = FALSE
    /\ editCourses = <<>>
    /\ saveMessage = "none"
    /\ approvalStatus = "none"
    /\ archivePending = FALSE
    /\ isSaving = FALSE
    /\ saveCall = "none"
    /\ isApproving = FALSE
    /\ approveCall = "none"
    /\ savedArchive = Null
    /\ serverApproved \in BOOLEAN
    /\ listData = Null
    /\ isUploading = FALSE
    /\ listError = "none"
    /\ listApprovalStatus = {}
    /\ parseInFlight = 0
    /\ listMounted = FALSE
    /\ statusPending = 0
    /\ statusStale = 0
    /\ listIsSaving = FALSE
    /\ listSaveCall = "none"
    /\ savedMessage = "none"
    /\ showEmailModal = FALSE
    /\ selected = {}
    /\ isSending = FALSE
    /\ bulkResult = FALSE
    /\ bulkCall = "none"
    /\ bulkRecipients = {}
    /\ costLine = Null
    /\ classification = Null
    /\ indirectPool = 0
    /\ courseList = <<>>
    /\ apportionment = [status |-> "none", shares |-> <<>>]
    /\ ledgerPool = 0
    /\ ledgerCourses = <<>>
    /\ ledger = [status |-> "none", lines |-> <<>>]
    /\ loadStarted = FALSE
    /\ loadsInFlight = {}
    /\ isSendingEmail = FALSE
    /\ emailCall = "none"

Init ==
    /\ InitControls
    /\ cache \in {Null} \cup {FullDataOf(s) : s \in EditSettlements}
    /\ routePeriod = period

\* approvalStatus is "none" for null, else "approved" or "unapproved" for the
\* record's approved flag.
\* approvalStatus?.approved === true, page.tsx:164
isApproved == approvalStatus = "approved"

\* What an archive answers about the company's approval: "absent" when it
\* carries no approval_status at all, else the company's entry.
ArchiveApprovals == {"absent", "approved"}

\* the answers the server can give now; a failed request restores nothing,
\* which is the answer "absent"
ApprovalAnswers(Approvals, mayFail) ==
    {a \in Approvals :
        IF mayFail THEN a = "approved" => serverApproved
        ELSE a = "approved" <=> serverApproved}

\* if (archiveData.approval_status) setApprovalStatus(.. [companyId] || null)
RestoreApproval(answer) ==
    approvalStatus' = IF answer = "absent" THEN approvalStatus ELSE answer

\* the settlement view is rendered, page.tsx:474-496
Rendered == ~loading /\ error = "none" /\ settlement # Null

\* {validationIssues.length > 0 && <ValidationPanel .. />}, page.tsx:518-520
ValidationPanelShown == Rendered /\ Len(validationIssues) > 0

\* if (cached) { ... if (parsed.period === period && parsed.companies[companyId])
CacheUsable ==
    /\ cache # Null
    /\ cache.period = period
    /\ companyId \in DOMAIN cache.companies

\* setFullData .. setLoading(false), page.tsx:253-257 and 283-302
Show(data) ==
    /\ fullData' = data
    /\ settlement' = data.companies[companyId]
    /\ companyInfo' = data.companies_info[companyId]
    /\ validationIssues' = validateSettlement(data.companies[companyId])
    /\ loading' = FALSE
    /\ UNCHANGED <<error, isEditing, editCourses, saveMessage, cache>>

\* loadData, first source: the session cache, page.tsx:247-276
LoadFromCache ==
    /\ loading
    /\ CacheUsable
    /\ Show(cache)
    /\ archivePending' = TRUE
    /\ UNCHANGED <<approvalStatus, requestVars, listVars, engineVars,
                   routeVars, emailVars>>

\* loadData after the cache was shown: loadArchive answers or throws,
\* page.tsx:259-273
ArchiveStatusArrives ==
    /\ archivePending
    /\ archivePending' = FALSE
    /\ \E answer \in ApprovalAnswers(ArchiveApprovals, TRUE) : RestoreApproval(answer)
    /\ UNCHANGED <<loading, error, settlement, companyInfo, fullData, validationIssues,
                   isEditing, editCourses, saveMessage, cache, requestVars,
                   listVars, engineVars, routeVars, emailVars>>

\* loadData, second source: the archive of the period, page.tsx:278-306
LoadFromArchive(Settlements, Approvals) ==
    /\ loading
    /\ ~CacheUsable
    /\ period # ""
    /\ \E s \in Settlements : Show(FullDataOf(s))
    /\ \E answer \in ApprovalAnswers(Approvals, FALSE) : RestoreApproval(answer)
    /\ UNCHANGED <<archivePending, requestVars, listVars, engineVars,
                   routeVars, emailVars>>

\* loadData, neither source has the company, page.tsx:308-309
LoadNotFound ==
    /\ loading
    /\ ~CacheUsable
    /\ error' = "not_found"
    /\ loading' = FALSE
    /\ UNCHANGED <<settlement, companyInfo, fullData, validationIssues, isEditing,
                   editCourses, saveMessage, approvalStatus, archivePending, cache,
                   requestVars, listVars, engineVars, routeVars, emailVars>>

\* page.tsx:167-175, from the button of page.tsx:568-580
handleStartEdit ==
    /\ Rendered
    /\ ~isEditing
    /\ ~isApproved
    /\ editCourses' = settlement.courses
    /\ isEditing' = TRUE
    /\ UNCHANGED <<loading, error, settlement, companyInfo, fullData, validationIssues,
                   saveMessage, approvalStatus, archivePending, cache,
                   requestVars, listVars, engineVars, routeVars, emailVars>>

\* the edit written through to the displayed settlement: an edit copy that
\* shares its course objects with settlement.courses
handleEditCourseInPlace ==
    /\ Rendered
    /\ isEditing
    /\ \E idx \in 1..Len(editCourses), field \in {"revenue", "ad_cost"},
          value \in EditValues :
            /\ editCourses' = EditCourse(editCourses, idx, field, value)
            /\ settlement' =
                   [settlement EXCEPT !.courses[idx] =
                       EditCourse(editCourses, idx, field, value)[idx]]
    /\ UNCHANGED <<loading, error, companyInfo, fullData, validationIssues,
                   isEditing, saveMessage, approvalStatus, archivePending, cache,
                   requestVars, listVars, engineVars, routeVars, emailVars>>

\* page.tsx:178-188, from the inputs of EditableCourseRow, page.tsx:868-883
handleEditCourse ==
    /\ Rendered
    /\ isEditing
    /\ \E idx \in 1..Len(editCourses), field \in {"revenue", "ad_cost"},
          value \in EditValues :
            editCourses' = EditCourse(editCourses, idx, field, value)
    /\ UNCHANGED <<loading, error, settlement, companyInfo, fullData, validationIssues,
                   isEditing, saveMessage, approvalStatus, archivePending, cache,
                   requestVars, listVars, engineVars, routeVars, emailVars>>

\* the cancel button, page.tsx:582-587
CancelEdit ==
    /\ Rendered
    /\ isEditing
    /\ isEditing' = FALSE
    /\ UNCHANGED <<loading, error, settlement, companyInfo, fullData, validationIssues,
                   editCourses, saveMessage, approvalStatus, archivePending, cache,
                   requestVars, listVars, engineVars, routeVars, emailVars>>

\* the body handleSave and handleApprove give saveArchive, page.tsx:322-328
\* and 350-356
ArchivePayload(fd) ==
    [period |-> fd.period, companies |-> fd.companies, summary |-> fd.summary]

\* applying without validating again
handleApplyEditsStaleIssues ==
    /\ Rendered
    /\ isEditing
    /\ fullData # Null
    /\ LET updatedSettlement == UpdatedSettlement(settlement, editCourses)
           updatedFullData == UpdatedFullData(fullData, updatedSettlement)
       IN  /\ settlement' = updatedSettlement
           /\ fullData' = updatedFullData
           /\ cache' = updatedFullData
    /\ isEditing' = FALSE
    /\ saveMessage' = "applied"
    /\ UNCHANGED <<loading, error, companyInfo, editCourses, approvalStatus,
                   archivePending, validationIssues, requestVars, listVars,
                   engineVars, routeVars, emailVars>>

\* applying and writing the result to the archive at once
handleApplyEditsSaving ==
    /\ Rendered
    /\ isEditing
    /\ fullData # Null
    /\ LET updatedSettlement == UpdatedSettlement(settlement, editCourses)
           updatedFullData == UpdatedFullData(fullData, updatedSettlement)
       IN  /\ settlement' = updatedSettlement
           /\ fullData' = updatedFullData
           /\ validationIssues' = validateSettlement(updatedSettlement)
           /\ cache' = updatedFullData
           /\ savedArchive' = ArchivePayload(updatedFullData)
    /\ isEditing' = FALSE
    /\ saveMessage' = "applied"
    /\ UNCHANGED <<loading, error, companyInfo, editCourses, approvalStatus,
                   archivePending, isSaving, saveCall, isApproving, approveCall,
                   serverApproved, listVars, engineVars, routeVars, emailVars>>

\* page.tsx:191-240, from the apply button of page.tsx:588-593
handleApplyEdits ==
    /\ Rendered
    /\ isEditing
    /\ fullData # Null
    /\ LET updatedSettlement == UpdatedSettlement(settlement, editCourses)
           updatedFullData == UpdatedFullData(fullData, updatedSettlement)
       IN  /\ settlement' = updatedSettlement
           /\ fullData' = updatedFullData
           /\ validationIssues' = validateSettlement(updatedSettlement)
           /\ cache' = updatedFullData
    /\ isEditing' = FALSE
    /\ saveMessage' = "applied"
    /\ UNCHANGED <<loading, error, companyInfo, editCourses, approvalStatus,
                   archivePending, requestVars, listVars, engineVars,
                   routeVars, emailVars>>

\* setTimeout(() => setSaveMessage(null), 5000), page.tsx:239
ClearSaveMessage ==
    /\ saveMessage # "none"
    /\ saveMessage' = "none"
    /\ UNCHANGED <<loading, error, settlement, companyInfo, fullData, validationIssues,
                   isEditing, editCourses, approvalStatus, archivePending, cache,
                   requestVars, listVars, engineVars, routeVars, emailVars>>

\* saveArchive(payload) is sent: the server stores the payload and will answer,
\* or the request fails and will throw (part_004:584-592)
SaveArchiveSent(payload, ok) ==
    savedArchive' = IF ok THEN payload ELSE savedArchive

\* page.tsx:316-322, from the save button of page.tsx:734-740; the request is
\* sent with the fullData of this render
handleSave ==
    /\ Rendered
    /\ ~isSaving
    /\ fullData # Null
    /\ isSaving' = TRUE
    /\ saveMessage' = "none"
    /\ \E ok \in BOOLEAN :
           /\ SaveArchiveSent(ArchivePayload(fullData), ok)
           /\ saveCall' = IF ok THEN "saved" ELSE "failed"
    /\ UNCHANGED <<loading, error, settlement, companyInfo, fullData, validationIssues,
                   isEditing, editCourses, approvalStatus, archivePending, cache,
                   isApproving, approveCall, serverApproved, listVars,
                   engineVars, routeVars, emailVars>>

\* handleSave after its await, page.tsx:329-336
SaveSettles ==
    /\ saveCall # "none"
    /\ saveMessage' = IF saveCall = "saved" THEN "saved" ELSE "save_failed"
    /\ isSaving' = FALSE
    /\ saveCall' = "none"
    /\ UNCHANGED <<loading, error, settlement, companyInfo, fullData, validationIssues,
                   isEditing, editCourses, approvalStatus, archivePending, cache,
                   isApproving, approveCall, savedArchive, serverApproved,
                   listVars, engineVars, routeVars, emailVars>>

\* approval refused while the validator reports an issue
handleApproveValidated ==
    /\ Rendered
    /\ ~isApproved
    /\ ~isApproving
    /\ fullData # Null
    /\ validationIssues = <<>>
    /\ isApproving' = TRUE
    /\ saveMessage' = "none"
    /\ \E ok \in BOOLEAN :
           /\ SaveArchiveSent(ArchivePayload(fullData), ok)
           /\ approveCall' = IF ok THEN "saveArchive" ELSE "saveArchiveFailed"
    /\ UNCHANGED <<loading, error, settlement, companyInfo, fullData, validationIssues,
                   isEditing, editCourses, approvalStatus, archivePending, cache,
                   isSaving, saveCall, serverApproved, listVars, engineVars,
                   routeVars, emailVars>>

\* page.tsx:340-357, from the approve button of page.tsx:763-770, the
\* confirm() answered yes (answered no, nothing changes)
handleApprove ==
    /\ Rendered
    /\ ~isApproved
    /\ ~isApproving
    /\ fullData # Null
    /\ isApproving' = TRUE
    /\ saveMessage' = "none"
    /\ \E ok \in BOOLEAN :
           /\ SaveArchiveSent(ArchivePayload(fullData), ok)
           /\ approveCall' = IF ok THEN "saveArchive" ELSE "saveArchiveFailed"
    /\ UNCHANGED <<loading, error, settlement, companyInfo, fullData, validationIssues,
                   isEditing, editCourses, approvalStatus, archivePending, cache,
                   isSaving, saveCall, serverApproved, listVars, engineVars,
                   routeVars, emailVars>>

\* handleApprove after `await saveArchive`: approveCompany is called,
\* page.tsx:357-360
ApproveArchiveSaved ==
    /\ approveCall = "saveArchive"
    /\ approveCall' = "approveCompany"
    /\ UNCHANGED <<loading, error, settlement, companyInfo, fullData, validationIssues,
                   isEditing, editCourses, saveMessage, approvalStatus, archivePending,
                   cache, isSaving, saveCall, isApproving, savedArchive, serverApproved,
                   listVars, engineVars, routeVars, emailVars>>

\* the catch and finally of handleApprove, page.tsx:373-377
ApproveFails ==
    /\ saveMessage' = "approve_failed"
    /\ isApproving' = FALSE
    /\ approveCall' = "none"
    /\ UNCHANGED <<loading, error, settlement, companyInfo, fullData, validationIssues,
                   isEditing, editCourses, approvalStatus, archivePending, cache,
                   isSaving, saveCall, savedArchive, listVars, engineVars,
                   routeVars, emailVars>>

\* a failure of saveArchive swallowed: the handler goes on to approveCompany
ApproveArchiveFailsIgnored ==
    /\ approveCall = "saveArchiveFailed"
    /\ approveCall' = "approveCompany"
    /\ UNCHANGED <<loading, error, settlement, companyInfo, fullData, validationIssues,
                   isEditing, editCourses, saveMessage, approvalStatus, archivePending,
                   cache, isSaving, saveCall, isApproving, savedArchive, serverApproved,
                   listVars, engineVars, routeVars, emailVars>>

\* saveArchive throws inside handleApprove
ApproveArchiveFails ==
    /\ approveCall = "saveArchiveFailed"
    /\ ApproveFails
    /\ UNCHANGED serverApproved

\* approveCompany answers, page.tsx:360-372
ApproveCompanyDone ==
    /\ approveCall = "approveCompany"
    /\ serverApproved' = TRUE
    /\ approvalStatus' = "approved"
    /\ saveMessage' = "approved"
    /\ isApproving' = FALSE
    /\ approveCall' = "none"
    /\ UNCHANGED <<loading, error, settlement, companyInfo, fullData, validationIssues,
                   isEditing, editCourses, archivePending, cache, isSaving, saveCall,
                   savedArchive, listVars, engineVars, routeVars, emailVars>>

\* approveCompany throws: the server has approved and the answer was lost, or
\* it has not
ApproveCompanyFails ==
    /\ approveCall = "approveCompany"
    /\ ApproveFails
    /\ serverApproved' \in {serverApproved, TRUE}

\* page.tsx:382-388, from the button of page.tsx:754-760, the confirm()
\* answered yes
handleUnapprove ==
    /\ Rendered
    /\ isApproved
    /\ ~isApproving
    /\ isApproving' = TRUE
    /\ saveMessage' = "none"
    /\ approveCall' = "unapproveCompany"
    /\ UNCHANGED <<loading, error, settlement, companyInfo, fullData, validationIssues,
                   isEditing, editCourses, approvalStatus, archivePending, cache,
                   isSaving, saveCall, savedArchive, serverApproved, listVars,
                   engineVars, routeVars, emailVars>>

\* unapproveCompany answers, page.tsx:388-400
UnapproveDone ==
    /\ approveCall = "unapproveCompany"
    /\ serverApproved' = FALSE
    /\ approvalStatus' = "unapproved"
    /\ saveMessage' = "unapproved"
    /\ isApproving' = FALSE
    /\ approveCall' = "none"
    /\ UNCHANGED <<loading, error, settlement, companyInfo, fullData, validationIssues,
                   isEditing, editCourses, archivePending, cache, isSaving, saveCall,
                   savedArchive, listVars, engineVars, routeVars, emailVars>>

\* a failed unapproveCompany after which the page shows the approval as lifted
UnapproveFailsLifted ==
    /\ approveCall = "unapproveCompany"
    /\ approvalStatus' = "unapproved"
    /\ saveMessage' = "unapprove_failed"
    /\ isApproving' = FALSE
    /\ approveCall' = "none"
    /\ serverApproved' \in {serverApproved, FALSE}
    /\ UNCHANGED <<loading, error, settlement, companyInfo, fullData, validationIssues,
                   isEditing, editCourses, archivePending, cache,
                   isSaving, saveCall, savedArchive, listVars, engineVars,
                   routeVars, emailVars>>

\* unapproveCompany throws, page.tsx:401-405
UnapproveFails ==
    /\ approveCall = "unapproveCompany"
    /\ saveMessage' = "unapprove_failed"
    /\ isApproving' = FALSE
    /\ approveCall' = "none"
    /\ serverApproved' \in {serverApproved, FALSE}
    /\ UNCHANGED <<loading, error, settlement, companyInfo, fullData, validationIssues,
                   isEditing, editCourses, approvalStatus, archivePending, cache,
                   isSaving, saveCall, savedArchive, listVars, engineVars,
                   routeVars, emailVars>>

\* The edit session over every settlement of EditSettlements; the buttons of
\* the action bar are left alone.
Next ==
    \/ LoadFromCache
    \/ ArchiveStatusArrives
    \/ LoadFromArchive(EditSettlements, ArchiveApprovals)
    \/ LoadNotFound
    \/ handleStartEdit
    \/ handleEditCourse
    \/ CancelEdit
    \/ handleApplyEdits
    \/ ClearSaveMessage

Spec == Init /\ [][Next]_vars

\* The whole page over a few settlements: loading, the edit session and the
\* action bar with its requests.
PageSettlements ==
    {MkSettlement(sh, 50, 0, 0, 0, 0) : sh \in ShapeLists(EditShapes, {1})}

InitPage ==
    /\ Init
    /\ cache \in {Null} \cup {FullDataOf(s) : s \in PageSettlements}

NextPage ==
    \/ LoadFromCache
    \/ ArchiveStatusArrives
    \/ LoadFromArchive(PageSettlements, ArchiveApprovals)
    \/ LoadNotFound
    \/ handleStartEdit
    \/ handleEditCourse
    \/ CancelEdit
    \/ handleApplyEdits
    \/ ClearSaveMessage
    \/ handleSave
    \/ SaveSettles
    \/ handleApprove
    \/ ApproveArchiveSaved
    \/ ApproveArchiveFails
    \/ ApproveCompanyDone
    \/ ApproveCompanyFails
    \/ handleUnapprove
    \/ UnapproveDone
    \/ UnapproveFails

SpecPage == InitPage /\ [][NextPage]_vars

-----------------------------------------------------------------------------
(* loadData by the period of the URL, page.tsx:242-313.  The effect runs    *)
(* again whenever the period changes; a loadData started earlier goes on    *)
(* after its await and sets the page's state when loadArchive answers.      *)

OtherPeriod == "2025-Q3"

\* the periods a URL names; "" when it has no period parameter (page.tsx:132)
Routes == {period, OtherPeriod, ""}

\* what the archive of period p holds when it has the company
LoadSettlements ==
    {MkSettlement(sh, pct, 0, 0, 0, 0) :
        sh \in ShapeLists(EditShapes, {1}), pct \in Ratios}

ArchiveData(p) == {[FullDataOf(s) EXCEPT !.period = p] : s \in LoadSettlements}

\* a ParseResponse that lacks the company
WithoutCompany(fd) ==
    [fd EXCEPT !.companies = [c \in {OtherCompanyId} |-> fd.companies[c]],
               !.companies_info = [c \in {OtherCompanyId} |-> fd.companies_info[c]]]

\* what the session cache can hold when the page is opened
LoadCaches ==
    {Null} \cup {FullDataOf(s) : s \in PageSettlements}
           \cup {WithoutCompany(FullDataOf(s)) : s \in PageSettlements}

\* a loadData awaiting loadArchive: for the approval status after the cache
\* was shown (page.tsx:260), or as the second source (page.tsx:281)
Load(p, source) == [period |-> p, source |-> source]

\* the cache taken for usable whatever its period
CacheUsableAnyPeriod(p) ==
    /\ cache # Null
    /\ companyId \in DOMAIN cache.companies

\* parsed.period === period && parsed.companies[companyId], page.tsx:251,
\* for the period p the load was started with
CacheUsableFor(p) ==
    /\ cache # Null
    /\ cache.period = p
    /\ companyId \in DOMAIN cache.companies

\* the effect of page.tsx:242-313 up to its first await or, with no period
\* in the URL, its end
RunLoadEffect ==
    /\ ~loadStarted
    /\ loadStarted' = TRUE
    /\ IF CacheUsableFor(routePeriod)
          THEN /\ fullData' = cache
               /\ settlement' = cache.companies[companyId]
               /\ companyInfo' = cache.companies_info[companyId]
               /\ validationIssues' = validateSettlement(cache.companies[companyId])
               /\ loading' = FALSE
               /\ error' = "none"
               /\ loadsInFlight' = loadsInFlight \cup {Load(routePeriod, "cache")}
          ELSE /\ IF routePeriod # ""
                     THEN /\ loading' = TRUE
                          /\ error' = "none"
                          /\ loadsInFlight' =
                                 loadsInFlight \cup {Load(routePeriod, "archive")}
                     ELSE /\ loading' = FALSE
                          /\ error' = "not_found"
                          /\ UNCHANGED loadsInFlight
               /\ UNCHANGED <<fullData, settlement, companyInfo,
                              validationIssues>>
    /\ UNCHANGED <<isEditing, editCourses, saveMessage, approvalStatus, archivePending,
                   cache, routePeriod, requestVars, listVars, engineVars,
                   emailVars>>

\* loadArchive answers or throws after the cache was shown, page.tsx:259-273
LoadStatusArrives ==
    /\ \E l \in loadsInFlight :
           /\ l.source = "cache"
           /\ loadsInFlight' = loadsInFlight \ {l}
    /\ \E answer \in ArchiveApprovals : RestoreApproval(answer)
    /\ UNCHANGED <<loading, error, settlement, companyInfo, fullData, validationIssues,
                   isEditing, editCourses, saveMessage, archivePending, cache,
                   routePeriod, loadStarted, requestVars, listVars,
                   engineVars, emailVars>>

\* loadArchive answers with the company, the second source, page.tsx:281-304
LoadArchiveArrives ==
    /\ \E l \in loadsInFlight :
           /\ l.source = "archive"
           /\ loadsInFlight' = loadsInFlight \ {l}
           /\ \E data \in ArchiveData(l.period) : Show(data)
    /\ \E answer \in ArchiveApprovals : RestoreApproval(answer)
    /\ UNCHANGED <<archivePending, routePeriod, loadStarted, requestVars, listVars,
                   engineVars, emailVars>>

\* loadArchive answers without the company or throws, page.tsx:305-309
LoadArchiveFails ==
    /\ \E l \in loadsInFlight :
           /\ l.source = "archive"
           /\ loadsInFlight' = loadsInFlight \ {l}
    /\ error' = "not_found"
    /\ loading' = FALSE
    /\ UNCHANGED <<settlement, companyInfo, fullData, validationIssues, isEditing,
                   editCourses, saveMessage, approvalStatus, archivePending, cache,
                   routePeriod, loadStarted, requestVars, listVars,
                   engineVars, emailVars>>

\* the period of the URL changes (a link or the history); the effect will run
\* again, page.tsx:313
Navigate ==
    /\ loadStarted
    /\ \E p \in Routes \ {routePeriod} : routePeriod' = p
    /\ loadStarted' = FALSE
    /\ UNCHANGED <<detailVars, cache, loadsInFlight, requestVars, listVars,
                   engineVars, emailVars>>

InitLoad ==
    /\ InitControls
    /\ cache \in LoadCaches
    /\ routePeriod \in Routes
    /\ ~serverApproved

\* One load: the page is opened at a URL and stays there.
NextLoad ==
    \/ RunLoadEffect
    \/ LoadStatusArrives
    \/ LoadArchiveArrives
    \/ LoadArchiveFails

SpecLoad == InitLoad /\ [][NextLoad]_vars

\* The page opened at a URL and the period of the URL changing afterwards.
NextNavigate ==
    \/ NextLoad
    \/ Navigate

SpecNavigate == InitLoad /\ [][NextNavigate]_vars

-----------------------------------------------------------------------------
(* The list page, SettlementListPage of part_004 *)

\* what /api/settlements/parse can answer
ParseResults == {FullDataOf(s) : s \in EditSettlements}

\* the messages of the catch of handleUpload, part_004:63-72
UploadErrors == {"server_unreachable", "parse_failed", "other"}

\* the mount effect, part_004:33-48: the cached data is shown again and its
\* approval status asked for
ListMount ==
    /\ ~listMounted
    /\ listMounted' = TRUE
    /\ IF cache # Null
          THEN /\ listData' = cache
               /\ statusPending' = statusPending + 1
          ELSE UNCHANGED <<listData, statusPending>>
    /\ UNCHANGED <<isUploading, listError, listApprovalStatus, parseInFlight, statusStale,
                   modalVars, listSaveVars, cache, detailVars, requestVars,
                   engineVars, routeVars, emailVars>>

\* getApprovalStatus(..).then(setApprovalStatus).catch(() => {}),
\* part_004:41-43 and 91-93; it answers {} when the response is not ok
\* (part_004:607).  The request answered is one sent before the last upload
\* or one sent after it.
ListStatusArrives ==
    /\ statusPending > 0
    /\ statusPending' = statusPending - 1
    /\ \/ statusStale > 0 /\ statusStale' = statusStale - 1
       \/ statusPending > statusStale /\ UNCHANGED statusStale
    /\ \/ \E approved \in SUBSET CompanyIds : listApprovalStatus' = approved
       \/ UNCHANGED listApprovalStatus
    /\ UNCHANGED <<listData, isUploading, listError, parseInFlight, listMounted,
                   modalVars, listSaveVars, cache, detailVars, requestVars,
                   engineVars, routeVars, emailVars>>

\* the upload button (disabled={isUploading}, part_004:153-170) and the upload
\* zone (a spinner while isLoading, part_001:35-42) can hand over a file
CanStartUpload == listMounted /\ ~isUploading

\* handleUpload started from a control that ignores isUploading
handleUploadUnguarded ==
    /\ listMounted
    /\ isUploading' = TRUE
    /\ listError' = "none"
    /\ savedMessage' = "none"
    /\ parseInFlight' = parseInFlight + 1
    /\ UNCHANGED <<listData, listApprovalStatus, listMounted, statusPending, statusStale,
                   modalVars, listIsSaving, listSaveCall, cache, detailVars,
                   requestVars, engineVars, routeVars, emailVars>>

\* handleUpload up to `await parsePdf(file)`, part_004:51-57
handleUpload ==
    /\ CanStartUpload
    /\ isUploading' = TRUE
    /\ listError' = "none"
    /\ savedMessage' = "none"
    /\ parseInFlight' = parseInFlight + 1
    /\ UNCHANGED <<listData, listApprovalStatus, listMounted, statusPending, statusStale,
                   modalVars, listIsSaving, listSaveCall, cache, detailVars,
                   requestVars, engineVars, routeVars, emailVars>>

\* a failed parse that shows what the server sent along with the error
ParseFailsPartial ==
    /\ parseInFlight > 0
    /\ parseInFlight' = parseInFlight - 1
    /\ \E e \in UploadErrors : listError' = e
    /\ \E result \in ParseResults : listData' = result
    /\ isUploading' = FALSE
    /\ UNCHANGED <<listApprovalStatus, listMounted, statusPending, statusStale,
                   modalVars, listSaveVars, cache, detailVars, requestVars,
                   engineVars, routeVars, emailVars>>

\* parsePdf answers, part_004:58-62 and 73-75; every getApprovalStatus still
\* awaited was sent before this upload
ParseSucceeds(Results) ==
    /\ parseInFlight > 0
    /\ parseInFlight' = parseInFlight - 1
    /\ \E result \in Results :
           /\ listData' = result
           /\ cache' = result
    /\ listApprovalStatus' = {}
    /\ statusStale' = statusPending
    /\ isUploading' = FALSE
    /\ UNCHANGED <<listError, listMounted, statusPending, modalVars, listSaveVars,
                   detailVars, requestVars, engineVars, routeVars, emailVars>>

\* parsePdf throws (no connection, a response that is not ok, the abort after
\* 60 s: part_004:554-582), part_004:63-75
ParseFails ==
    /\ parseInFlight > 0
    /\ parseInFlight' = parseInFlight - 1
    /\ \E e \in UploadErrors : listError' = e
    /\ isUploading' = FALSE
    /\ UNCHANGED <<listData, listApprovalStatus, listMounted, statusPending, statusStale,
                   modalVars, listSaveVars, cache, detailVars, requestVars,
                   engineVars, routeVars, emailVars>>

NextList ==
    \/ ListMount
    \/ ListStatusArrives
    \/ handleUpload
    \/ ParseSucceeds(ParseResults)
    \/ ParseFails

SpecList == Init /\ [][NextList]_vars

\* the numbers of awaited getApprovalStatus requests at which the save button
\* is pressed once more
PendingRequests == {0, 1}

\* handleSave of the list page up to `await saveArchive`, part_004:79-88, from
\* the button of part_004:144-151
listHandleSave ==
    /\ listData # Null
    /\ ~listIsSaving
    /\ statusPending \in PendingRequests
    /\ listIsSaving' = TRUE
    /\ \E ok \in BOOLEAN :
           /\ SaveArchiveSent(ArchivePayload(listData), ok)
           /\ listSaveCall' = IF ok THEN "saved" ELSE "failed"
    /\ UNCHANGED <<listData, isUploading, listError, listApprovalStatus, parseInFlight,
                   listMounted, statusPending, statusStale, modalVars, savedMessage,
                   cache, detailVars, isSaving, saveCall, isApproving, approveCall,
                   serverApproved, engineVars, routeVars, emailVars>>

\* handleSave of the list page after its await, part_004:89-98: the approval
\* status is asked for again after a save that succeeded
ListSaveSettles ==
    /\ listSaveCall # "none"
    /\ IF listSaveCall = "saved"
          THEN /\ savedMessage' = "saved"
               /\ statusPending' = statusPending + 1
               /\ UNCHANGED listError
          ELSE /\ listError' = "save_failed"
               /\ UNCHANGED <<savedMessage, statusPending>>
    /\ listIsSaving' = FALSE
    /\ listSaveCall' = "none"
    /\ UNCHANGED <<listData, isUploading, listApprovalStatus, parseInFlight, listMounted,
                   statusStale, modalVars, cache, detailVars, requestVars,
                   engineVars, routeVars, emailVars>>

\* companyList[..].approved, part_004:116
ListApproved(id) == id \in listApprovalStatus

\* companyList[..].contactEmail, part_004:118
ContactEmail(id) == listData.companies_info[id].contact_email

\* companyList.filter(c => c.approved).length, part_004:123
approvedCount ==
    Cardinality({id \in DOMAIN listData.companies : ListApproved(id)})

\* companyList.filter(c => c.approved && c.id !== "plusx"), part_004:304
approvedCompanies ==
    {id \in DOMAIN listData.companies : ListApproved(id) /\ id # "plusx"}

\* approvedCompanies.filter(c => c.contactEmail), part_004:306 and 321
selectable == {id \in approvedCompanies : ContactEmail(id) # ""}

\* the modal is mounted with fresh state, part_004:136-143 and 304-309
OpenEmailModal ==
    /\ listData # Null
    /\ approvedCount > 0
    /\ ~showEmailModal
    /\ showEmailModal' = TRUE
    /\ selected' = selectable
    /\ isSending' = FALSE
    /\ bulkResult' = FALSE
    /\ bulkCall' = "none"
    /\ UNCHANGED <<listData, isUploading, listError, listApprovalStatus, parseInFlight,
                   listMounted, statusPending, statusStale, bulkRecipients, listSaveVars,
                   cache, detailVars, requestVars, engineVars, routeVars,
                   emailVars>>

\* onClose, part_004:276 (the backdrop, the x and the cancel button): the
\* modal is unmounted, its state is gone and what a sendBulkEmail still in
\* flight sets afterwards is lost with it
CloseEmailModal ==
    /\ showEmailModal
    /\ showEmailModal' = FALSE
    /\ selected' = {}
    /\ isSending' = FALSE
    /\ bulkResult' = FALSE
    /\ bulkCall' = "none"
    /\ UNCHANGED <<listData, isUploading, listError, listApprovalStatus, parseInFlight,
                   listMounted, statusPending, statusStale, bulkRecipients, listSaveVars,
                   cache, detailVars, requestVars, engineVars, routeVars,
                   emailVars>>

\* part_004:311-318, from the checkbox of a listed company that has an email
\* (part_004:408-414)
toggleSelect ==
    /\ showEmailModal
    /\ ~bulkResult
    /\ \E id \in selectable :
           selected' = IF id \in selected THEN selected \ {id} ELSE selected \cup {id}
    /\ UNCHANGED <<listData, isUploading, listError, listApprovalStatus, parseInFlight,
                   listMounted, statusPending, statusStale, showEmailModal, isSending,
                   bulkResult, bulkCall, bulkRecipients, listSaveVars, cache, detailVars,
                   requestVars, engineVars, routeVars, emailVars>>

\* part_004:320-327
toggleAll ==
    /\ showEmailModal
    /\ ~bulkResult
    /\ selected' = IF Cardinality(selected) = Cardinality(selectable) THEN {}
                   ELSE selectable
    /\ UNCHANGED <<listData, isUploading, listError, listApprovalStatus, parseInFlight,
                   listMounted, statusPending, statusStale, showEmailModal, isSending,
                   bulkResult, bulkCall, bulkRecipients, listSaveVars, cache, detailVars,
                   requestVars, engineVars, routeVars, emailVars>>

\* handleSend up to `await sendBulkEmail`, part_004:329-335, from the button
\* of part_004:443-449, the confirm() answered yes
handleSend ==
    /\ showEmailModal
    /\ ~bulkResult
    /\ ~isSending
    /\ selected # {}
    /\ isSending' = TRUE
    /\ bulkCall' = "pending"
    /\ bulkRecipients' = selected
    /\ UNCHANGED <<listData, isUploading, listError, listApprovalStatus, parseInFlight,
                   listMounted, statusPending, statusStale, showEmailModal, selected,
                   bulkResult, listSaveVars, cache, detailVars, requestVars,
                   engineVars, routeVars, emailVars>>

\* sendBulkEmail answers, part_004:336 and 339-341
BulkSendDone ==
    /\ bulkCall = "pending"
    /\ bulkResult' = TRUE
    /\ isSending' = FALSE
    /\ bulkCall' = "none"
    /\ UNCHANGED <<listData, isUploading, listError, listApprovalStatus, parseInFlight,
                   listMounted, statusPending, statusStale, showEmailModal, selected,
                   bulkRecipients, listSaveVars, cache, detailVars, requestVars,
                   engineVars, routeVars, emailVars>>

\* sendBulkEmail throws, part_004:337-341
BulkSendFails ==
    /\ bulkCall = "pending"
    /\ isSending' = FALSE
    /\ bulkCall' = "none"
    /\ UNCHANGED <<listData, isUploading, listError, listApprovalStatus, parseInFlight,
                   listMounted, statusPending, statusStale, showEmailModal, selected,
                   bulkResult, bulkRecipients, listSaveVars, cache, detailVars,
                   requestVars, engineVars, routeVars, emailVars>>

\* a parse result in which the company has no contact and no tax email
NoContact(fd) == [fd EXCEPT !.companies_info[companyId].contact_email = ""]

\* The whole list page over a few parse results: upload, save and the bulk
\* email modal.
ListPageResults ==
    {FullDataOf(s) : s \in PageSettlements}
        \cup {NoContact(FullDataOf(s)) : s \in PageSettlements}

InitListPage ==
    /\ Init
    /\ cache \in {Null} \cup ListPageResults
    /\ ~serverApproved

NextListPage ==
    \/ ListMount
    \/ ListStatusArrives
    \/ handleUpload
    \/ ParseSucceeds(ListPageResults)
    \/ ParseFails
    \/ listHandleSave
    \/ ListSaveSettles
    \/ OpenEmailModal
    \/ CloseEmailModal
    \/ toggleSelect
    \/ toggleAll
    \/ handleSend
    \/ BulkSendDone
    \/ BulkSendFails

SpecListPage == InitListPage /\ [][NextListPage]_vars

-----------------------------------------------------------------------------
(* The email button of the detail page, page.tsx:421-465, and every         *)
(* request of the two pages.                                                *)

\* page.tsx:421-444, from the button of page.tsx:746-752, with an address on
\* record and the confirm() answered yes
handleSendEmail ==
    /\ Rendered
    /\ isApproved
    /\ ~isSendingEmail
    /\ period # ""
    /\ companyInfo # Null
    /\ companyInfo.contact_email # ""
    /\ isSendingEmail' = TRUE
    /\ saveMessage' = "none"
    /\ emailCall' = "pending"
    /\ UNCHANGED <<loading, error, settlement, companyInfo, fullData, validationIssues,
                   isEditing, editCourses, approvalStatus, archivePending, cache,
                   requestVars, listVars, engineVars, routeVars>>

\* sendEmail answers, page.tsx:445-457 and 460-462
SendEmailDone ==
    /\ emailCall = "pending"
    /\ saveMessage' = "email_sent"
    /\ isSendingEmail' = FALSE
    /\ emailCall' = "none"
    /\ UNCHANGED <<loading, error, settlement, companyInfo, fullData, validationIssues,
                   isEditing, editCourses, approvalStatus, archivePending, cache,
                   requestVars, listVars, engineVars, routeVars>>

\* a failed sendEmail after which the button stays disabled
SendEmailFailsStillSending ==
    /\ emailCall = "pending"
    /\ saveMessage' = "email_failed"
    /\ emailCall' = "none"
    /\ UNCHANGED <<loading, error, settlement, companyInfo, fullData, validationIssues,
                   isEditing, editCourses, approvalStatus, archivePending, cache,
                   requestVars, listVars, engineVars, routeVars,
                   isSendingEmail>>

\* sendEmail throws, page.tsx:458-462
SendEmailFails ==
    /\ emailCall = "pending"
    /\ saveMessage' = "email_failed"
    /\ isSendingEmail' = FALSE
    /\ emailCall' = "none"
    /\ UNCHANGED <<loading, error, settlement, companyInfo, fullData, validationIssues,
                   isEditing, editCourses, approvalStatus, archivePending, cache,
                   requestVars, listVars, engineVars, routeVars>>

\* the detail page is the page open: the list page has not been mounted
DetailPageOpen == ~listMounted

\* the list page is the page open: the detail page has not begun to load
ListPageOpen == loading /\ ~archivePending

\* The browser shows one of the two pages, and that page runs its requests:
\* the detail page with its action bar, the edit session left aside, or the
\* list page.
NextRequests ==
    \/ DetailPageOpen /\ LoadFromCache
    \/ DetailPageOpen /\ ArchiveStatusArrives
    \/ DetailPageOpen /\ LoadFromArchive(PageSettlements, ArchiveApprovals)
    \/ DetailPageOpen /\ LoadNotFound
    \/ DetailPageOpen /\ ClearSaveMessage
    \/ DetailPageOpen /\ handleSave
    \/ DetailPageOpen /\ SaveSettles
    \/ DetailPageOpen /\ handleApprove
    \/ DetailPageOpen /\ ApproveArchiveSaved
    \/ DetailPageOpen /\ ApproveArchiveFails
    \/ DetailPageOpen /\ ApproveCompanyDone
    \/ DetailPageOpen /\ ApproveCompanyFails
    \/ DetailPageOpen /\ handleUnapprove
    \/ DetailPageOpen /\ UnapproveDone
    \/ DetailPageOpen /\ UnapproveFails
    \/ DetailPageOpen /\ handleSendEmail
    \/ DetailPageOpen /\ SendEmailDone
    \/ DetailPageOpen /\ SendEmailFails
    \/ ListPageOpen /\ ListMount
    \/ ListPageOpen /\ ListStatusArrives
    \/ ListPageOpen /\ handleUpload
    \/ ListPageOpen /\ ParseSucceeds(ListPageResults)
    \/ ListPageOpen /\ ParseFails
    \/ ListPageOpen /\ listHandleSave
    \/ ListPageOpen /\ ListSaveSettles
    \/ ListPageOpen /\ OpenEmailModal
    \/ ListPageOpen /\ CloseEmailModal
    \/ ListPageOpen /\ toggleSelect
    \/ ListPageOpen /\ toggleAll
    \/ ListPageOpen /\ handleSend
    \/ ListPageOpen /\ BulkSendDone
    \/ ListPageOpen /\ BulkSendFails

InitRequests ==
    /\ InitPage
    /\ ~serverApproved

SpecRequests == InitRequests /\ [][NextRequests]_vars

\* every request that was sent is answered or fails in the end
RequestsSettle ==
    /\ WF_vars(ParseSucceeds(ListPageResults) \/ ParseFails)
    /\ WF_vars(ListSaveSettles)
    /\ WF_vars(BulkSendDone \/ BulkSendFails)
    /\ WF_vars(SaveSettles)
    /\ WF_vars(ApproveArchiveSaved \/ ApproveArchiveFails)
    /\ WF_vars(ApproveCompanyDone \/ ApproveCompanyFails)
    /\ WF_vars(UnapproveDone \/ UnapproveFails)
    /\ WF_vars(SendEmailDone \/ SendEmailFails)

SpecRequestsFair == SpecRequests /\ RequestsSettle

-----------------------------------------------------------------------------
(* The settlement engine: cost classifier and indirect-cost apportionment.  *)
(* Its code (campaign_rules.json and the Python calculator) is not among    *)
(* the sources; the rules are those the repository documents in             *)
(* config/README.md and lib/format.ts, the procedure that of the            *)
(* specification.  A label is the sequence of the pieces of a campaign      *)
(* name; a pattern is the set of its alternatives and matches a label that  *)
(* contains one of them.  The Korean alternatives are written               *)
(*   "ko_sharex" 쉐어엑스   "ko_plus" 플러스   "ko_bkid" 비케이아이디           *)
(*   "ko_sandoll" 산돌      "ko_blsn" 블센     "ko_conversion" 전환           *)

\* the ad targets and their type, config/README.md:86-94
KnownTargets == {"SHARE X", "PLUS X", "BKID", "BLSN", "SANDOLL"}

TargetMapping == [t \in KnownTargets |-> IF t = "SHARE X" THEN "indirect" ELSE "direct"]

\* the campaign patterns in the order they are listed, config/README.md:105-113
CampaignPatterns ==
    <<[default_target |-> "SHARE X",
       alternatives |-> {"ko_sharex", "Share X", "SHARE X", "SA_"}],
      [default_target |-> "PLUS X", alternatives |-> {"ko_plus", "PLUS", "IP_"}],
      [default_target |-> "BKID", alternatives |-> {"BKID", "ko_bkid", "DA_"}],
      [default_target |-> "SANDOLL", alternatives |-> {"ko_sandoll", "SANDOLL"}],
      [default_target |-> "BLSN", alternatives |-> {"ko_blsn", "BLSN"}]>>

\* re.search(pattern_rule['pattern'], campaign_name), config/README.md:78
Matches(rule, label) == \E i \in 1..Len(label) : label[i] \in rule.alternatives

MatchingRules(label) ==
    {k \in 1..Len(CampaignPatterns) : Matches(CampaignPatterns[k], label)}

\* the first rule in order that matches, 0 when none does: the `break` of
\* config/README.md:77-81
FirstMatch(label) ==
    IF MatchingRules(label) = {} THEN 0
    ELSE CHOOSE k \in MatchingRules(label) : \A j \in MatchingRules(label) : k <= j

ClassifyByTarget(target) == [type |-> TargetMapping[target], target |-> target]

Unclassified == [type |-> "indirect", target |-> "none"]

\* the classifier looking at the label before the target field
ClassifyPatternFirst(line) ==
    IF FirstMatch(line.label) # 0
        THEN ClassifyByTarget(CampaignPatterns[FirstMatch(line.label)].default_target)
    ELSE IF line.target \in KnownTargets THEN ClassifyByTarget(line.target)
    ELSE Unclassified

\* the target field first, the patterns as fallback, indirect otherwise
Classify(line) ==
    IF line.target \in KnownTargets THEN ClassifyByTarget(line.target)
    ELSE IF FirstMatch(line.label) # 0
        THEN ClassifyByTarget(CampaignPatterns[FirstMatch(line.label)].default_target)
    ELSE Unclassified

\* campaign_name = "IP_쉐어엑스_산돌_전환", config/README.md:74
ExampleCampaign == <<"IP_", "ko_sharex", "ko_sandoll", "ko_conversion">>

CampaignLabels ==
    {ExampleCampaign, <<"SA_", "brand">>, <<"DA_", "BKID">>, <<"ko_sandoll">>,
     <<"ko_blsn", "ko_sandoll">>, <<"IP_", "ko_sandoll">>, <<"brand">>, <<>>}

\* a cost line: its target field ("none" when it has none, "ETC" one that is
\* no known target) and its label
CostLines == [target : KnownTargets \cup {"none", "ETC"}, label : CampaignLabels]

classifyCostLine ==
    /\ \E line \in CostLines :
           /\ costLine' = line
           /\ classification' = Classify(line)
    /\ UNCHANGED <<indirectPool, courseList, apportionment, ledgerPool, ledgerCourses,
                   ledger, detailVars, cache, requestVars, listVars,
                   routeVars, emailVars>>

\* Amounts of the apportionment are exact fractions [num, den] of a won.
Partners == {"A", "B"}

Zero == [num |-> 0, den |-> 1]

Plus(x, y) == [num |-> x.num * y.den + y.num * x.den, den |-> x.den * y.den]

SameAmount(x, y) == x.num * y.den = y.num * x.den

NonExcluded(cs) == {i \in 1..Len(cs) : ~cs[i].excluded}

\* the computation aborted, nothing is returned
Fatal == [status |-> "fatal", shares |-> <<>>]

\* the apportionment dividing by the number of all courses, excluded or not
ApportionOverAllCourses(pool, cs) ==
    IF NonExcluded(cs) = {} /\ pool > 0 THEN Fatal
    ELSE [status |-> "done",
          shares |->
              [i \in 1..Len(cs) |->
                  IF cs[i].excluded THEN Zero ELSE [num |-> pool, den |-> Len(cs)]]]

\* a course's share of the indirect pool: pool / number of non-excluded
\* courses, 0 for an excluded course; no non-excluded course and a pool that
\* is not 0 is a fatal error
Apportion(pool, cs) ==
    IF NonExcluded(cs) = {} /\ pool > 0 THEN Fatal
    ELSE [status |-> "done",
          shares |->
              [i \in 1..Len(cs) |->
                  IF cs[i].excluded THEN Zero
                  ELSE [num |-> pool, den |-> Cardinality(NonExcluded(cs))]]]

\* the sum of the shares of the courses in I
RECURSIVE SumShares(_, _)
SumShares(shares, I) ==
    IF I = {} THEN Zero
    ELSE LET i == CHOOSE x \in I : TRUE
         IN  Plus(shares[i], SumShares(shares, I \ {i}))

\* what a partner is attributed: the shares of its courses
PartnerIndirect(shares, cs, partner) ==
    SumShares(shares, {i \in 1..Len(cs) : cs[i].owner = partner})

Pools == {0, 7, 300}

CourseLists == UNION {[1..n -> [owner : Partners, excluded : BOOLEAN]] : n \in 0..MaxCourses}

apportionIndirect ==
    /\ \E pool \in Pools, cs \in CourseLists :
           /\ indirectPool' = pool
           /\ courseList' = cs
           /\ apportionment' = Apportion(pool, cs)
    /\ UNCHANGED <<costLine, classification, ledgerPool, ledgerCourses, ledger,
                   detailVars, cache, requestVars, listVars, routeVars,
                   emailVars>>

NextEngine ==
    \/ classifyCostLine
    \/ apportionIndirect

InitEngine ==
    /\ Init
    /\ cache = Null
    /\ ~serverApproved

SpecEngine == InitEngine /\ [][NextEngine]_vars

\* The ledger of a period: what each course is attributed.  A course carries
\* its owner, its excluded flag, its revenue and the direct ad cost aimed at it.
CourseRevenues == {0, 100}

DirectCosts == {0, 40}

LedgerCourseLists ==
    UNION {[1..n -> [owner : Partners, excluded : BOOLEAN, revenue : CourseRevenues,
                     direct_cost : DirectCosts]] : n \in 1..MaxCourses}

\* the denominator of the indirect apportionment: the non-excluded courses
\* (30 courses, 2 of them excluded: 28)
Denominator(cs) == Cardinality(NonExcluded(cs))

\* a course's revenue goes to its owner
AttributedRevenue(c) == c.revenue

\* the direct ad cost of a course; that of an excluded course is taken as 0
\* (Case 4: "해당 강의의 직접광고비는 0 처리")
AttributedDirectCost(c) == IF c.excluded THEN 0 ELSE c.direct_cost

\* the ledger line of each course, nothing when the apportionment is fatal
Ledger(pool, cs) ==
    LET a == Apportion(pool, cs)
    IN  IF a.status = "fatal" THEN [status |-> "fatal", lines |-> <<>>]
        ELSE [status |-> "done",
              lines |->
                  [i \in 1..Len(cs) |->
                      [owner |-> cs[i].owner,
                       revenue |-> AttributedRevenue(cs[i]),
                       direct_cost |-> AttributedDirectCost(cs[i]),
                       indirect_cost |-> a.shares[i]]]]

computeLedger ==
    /\ \E pool \in Pools, cs \in LedgerCourseLists :
           /\ ledgerPool' = pool
           /\ ledgerCourses' = cs
           /\ ledger' = Ledger(pool, cs)
    /\ UNCHANGED <<costLine, classification, indirectPool, courseList, apportionment,
                   detailVars, cache, requestVars, listVars, routeVars,
                   emailVars>>

NextLedger == computeLedger

SpecLedger == InitEngine /\ [][NextLedger]_vars

\* The validator alone: the page is given each settlement of
\* ValidatorSettlements by the archive and validates it.
\* the archive of the validator's settlements carries no approval status
ValidatorApprovals == {"absent"}

InitValidate ==
    /\ Init
    /\ cache = Null
    /\ ~serverApproved

NextValidate == LoadFromArchive(ValidatorSettlements, ValidatorApprovals)

SpecValidate == InitValidate /\ [][NextValidate]_vars

-----------------------------------------------------------------------------
(* Properties of validateSettlement, checked under SpecValidate *)

HasIssue(field) ==
    \E k \in 1..Len(validationIssues) : validationIssues[k].field = field

HasCourseIssue(id) ==
    \E k \in 1..Len(validationIssues) :
        /\ validationIssues[k].field = "course_contribution"
        /\ validationIssues[k].course = id

IssuesOf(field) == SelectSeq(validationIssues, LAMBDA i : i.field = field)

CompanyChecks ==
    {"revenue", "ad_cost", "contribution", "contribution_formula", "settlement_amount"}

\* what each company-level check compares, as the difference actual - expected
CheckDiff(s, field) ==
    CASE field = "revenue" -> SumField(s.courses, "revenue") - s.revenue
      [] field = "ad_cost" -> SumField(s.courses, "ad_cost") - s.ad_cost
      [] field = "contribution" -> SumField(s.courses, "contribution") - s.contribution
      [] field = "contribution_formula" -> s.contribution - (s.revenue - s.ad_cost)
      [] field = "settlement_amount" ->
            s.settlement_amount
                - MathRound(s.contribution * s.union_payout_ratio, RatioScale)

CourseDiff(c) == c.contribution - (c.revenue - c.ad_cost)

CoursesConsistent(s) == \A i \in 1..Len(s.courses) : CourseDiff(s.courses[i]) = 0

\* the settlement of the scenario: contribution is 500 above revenue - ad_cost,
\* the revenue and ad cost totals are the course sums, the settlement amount is
\* the rounded share, and either every course is consistent or the course
\* contributions sum to the company's
C1Scenario ==
    /\ settlement # Null
    /\ CheckDiff(settlement, "contribution_formula") = 500
    /\ CheckDiff(settlement, "revenue") = 0
    /\ CheckDiff(settlement, "ad_cost") = 0
    /\ CheckDiff(settlement, "settlement_amount") = 0
    /\ \/ CoursesConsistent(settlement)
       \/ CheckDiff(settlement, "contribution") = 0

FailingCompanyChecks(s) ==
    {f \in CompanyChecks : Abs(CheckDiff(s, f)) > threshold}

FailingCourses(s) ==
    {i \in 1..Len(s.courses) : Abs(CourseDiff(s.courses[i])) > threshold}

\* C2: every check is evaluated whatever the others found: the list holds an
\* issue for each company-level check and for each course that is off by more
\* than the tolerance, and nothing else.
C2_AllChecksEvaluated ==
    settlement # Null =>
        /\ \A f \in FailingCompanyChecks(settlement) : HasIssue(f)
        /\ \A i \in FailingCourses(settlement) :
               HasCourseIssue(settlement.courses[i].course_id)
        /\ Len(validationIssues) =
               Cardinality(FailingCompanyChecks(settlement))
                   + Cardinality(FailingCourses(settlement))

C2_Witness ==
    /\ settlement # Null
    /\ FailingCompanyChecks(settlement) = CompanyChecks
    /\ Cardinality(FailingCourses(settlement)) = 2
    /\ Len(validationIssues) = 7

\* C3: the tolerance is 2: a check off by at most 2 in either direction reports
\* nothing, a check off by 3 or more reports an issue.
C3_ToleranceTwo ==
    settlement # Null =>
        /\ \A f \in CompanyChecks :
               /\ Abs(CheckDiff(settlement, f)) <= 2 => ~HasIssue(f)
               /\ Abs(CheckDiff(settlement, f)) >= 3 => HasIssue(f)
        /\ \A i \in 1..Len(settlement.courses) :
               LET c == settlement.courses[i]
               IN  /\ Abs(CourseDiff(c)) <= 2 => ~HasCourseIssue(c.course_id)
                   /\ Abs(CourseDiff(c)) >= 3 => HasCourseIssue(c.course_id)

C3_Witness ==
    /\ settlement # Null
    /\ CheckDiff(settlement, "revenue") = -2
    /\ CheckDiff(settlement, "ad_cost") = -3
    /\ CheckDiff(settlement, "settlement_amount") = 2
    /\ CheckDiff(settlement, "contribution") = -2
    /\ \E i \in 1..Len(settlement.courses) : CourseDiff(settlement.courses[i]) = 2
    /\ \E i \in 1..Len(settlement.courses) : CourseDiff(settlement.courses[i]) = -3
    /\ Len(validationIssues) >= 2
    /\ ~HasIssue("revenue")
    /\ HasIssue("ad_cost")
    /\ ~HasIssue("settlement_amount")
    /\ ~HasIssue("contribution")

\* C4 as stated: the settlement-amount check compares settlement_amount with
\* round(contribution x revenue_share_ratio x union_payout_ratio) and reports
\* exactly when they are more than the tolerance apart.
C4_RatioChain ==
    settlement # Null =>
        LET expected ==
                MathRound(settlement.contribution * companyInfo.revenue_share_ratio
                              * settlement.union_payout_ratio,
                          RatioScale * RatioScale)
        IN  HasIssue("settlement_amount")
                <=> Abs(expected - settlement.settlement_amount) > threshold

\* the issues reported for the course with the given id
CourseIssuesOf(id) ==
    SelectSeq(validationIssues,
              LAMBDA i : i.field = "course_contribution" /\ i.course = id)

\* C11: each failing check yields exactly one issue (the per-course check one
\* per offending course) and a passing check none; every issue carries
\* diff = actual - expected, which is not zero, is the signed difference the
\* check compared, and so is positive exactly when actual exceeds expected.
C11_OneSignedIssuePerCheck ==
    settlement # Null =>
        /\ \A f \in CompanyChecks :
               Len(IssuesOf(f)) = IF f \in FailingCompanyChecks(settlement) THEN 1 ELSE 0
        /\ \A i \in 1..Len(settlement.courses) :
               Len(CourseIssuesOf(settlement.courses[i].course_id)) =
                   IF i \in FailingCourses(settlement) THEN 1 ELSE 0
        /\ \A k \in 1..Len(validationIssues) :
               LET issue == validationIssues[k]
               IN  /\ issue.diff = issue.actual - issue.expected
                   /\ issue.diff # 0
                   /\ (issue.diff > 0) <=> (issue.actual > issue.expected)
                   /\ issue.field \in CompanyChecks =>
                          issue.diff = CheckDiff(settlement, issue.field)
                   /\ issue.field = "course_contribution" =>
                          \E i \in 1..Len(settlement.courses) :
                              /\ settlement.courses[i].course_id = issue.course
                              /\ issue.diff = CourseDiff(settlement.courses[i])

C11_Witness ==
    /\ settlement # Null
    /\ \E k \in 1..Len(validationIssues) :
           /\ validationIssues[k].field = "course_contribution"
           /\ validationIssues[k].diff = -3
    /\ \E k \in 1..Len(validationIssues) :
           /\ validationIssues[k].field = "settlement_amount"
           /\ validationIssues[k].diff = 3
    /\ \E k \in 1..Len(validationIssues) :
           /\ validationIssues[k].field = "ad_cost"
           /\ validationIssues[k].diff = -3
    /\ ~HasIssue("revenue")

-----------------------------------------------------------------------------
(* Properties of the edit session, checked under Spec *)

\* handleApplyEdits has run and its result is on display
Applied == Rendered /\ saveMessage = "applied"

\* n / d for d > 0 rounded to the nearest integer, a half going to the even one
RoundHalfEven(n, d) ==
    LET q == n \div d
        r == n % d
    IN  IF 2 * r < d THEN q
        ELSE IF 2 * r > d THEN q + 1
        ELSE IF q % 2 = 0 THEN q ELSE q + 1

\* C5 as stated: the settlement amount of applied edits and the expected amount
\* of the validator are contribution x ratio rounded half to even.
C5_HalfToEven ==
    /\ Applied =>
           settlement.settlement_amount =
               RoundHalfEven(settlement.contribution * settlement.union_payout_ratio,
                             RatioScale)
    /\ settlement # Null =>
           \A k \in 1..Len(validationIssues) :
               validationIssues[k].field = "settlement_amount" =>
                   validationIssues[k].expected =
                       RoundHalfEven(settlement.contribution
                                         * settlement.union_payout_ratio, RatioScale)

\* C6 as stated: applying edits rounds once, at the company-level product: a
\* course's share is its contribution x ratio unrounded, and the company's
\* revenue_share is the once-rounded product, not a sum of rounded shares.
C6_RoundedOnce ==
    Applied =>
        /\ \A i \in 1..Len(settlement.courses) :
               settlement.courses[i].revenue_share * RatioScale =
                   settlement.courses[i].contribution * settlement.union_payout_ratio
        /\ settlement.revenue_share =
               MathRound(settlement.contribution * settlement.union_payout_ratio,
                         RatioScale)

\* C7: for a company with union_payout_ratio 0, applied edits leave a
\* settlement amount of 0 and a contribution that is the sum of the courses'
\* contributions.
C7_OperatingEntity ==
    (Applied /\ settlement.union_payout_ratio = 0) =>
        /\ settlement.settlement_amount = 0
        /\ settlement.union_payout = 0
        /\ settlement.contribution = SumField(settlement.courses, "contribution")

C7_Witness ==
    /\ Applied
    /\ settlement.union_payout_ratio = 0
    /\ settlement.settlement_amount = 0
    /\ settlement.contribution > 1
    /\ \E i \in 1..Len(settlement.courses) : settlement.courses[i].ad_cost > 0

\* C8 as stated: after applied edits the company's contribution is exactly its
\* revenue minus its ad cost, whatever the settlement loaded.
C8_Conservation ==
    Applied => settlement.contribution = settlement.revenue - settlement.ad_cost

\* C9: after applied edits the totals are the course sums and the amount is the
\* rounded share: the validator reports no revenue-sum, cost-sum, margin-sum or
\* settlement-amount issue; what it reports is the formula check or a course.
C9_TotalsMatchCourses ==
    Applied =>
        /\ \A f \in {"revenue", "ad_cost", "contribution", "settlement_amount"} :
               /\ ~HasIssue(f)
               /\ Abs(CheckDiff(settlement, f)) <= threshold
        /\ \A k \in 1..Len(validationIssues) :
               validationIssues[k].field \in
                   {"contribution_formula", "course_contribution"}

C9_Witness ==
    /\ Applied
    /\ HasIssue("contribution_formula")
    /\ HasIssue("course_contribution")
    /\ Len(settlement.courses) = 2
    /\ settlement.courses[1].revenue # settlement.courses[2].revenue
    /\ settlement.revenue = SumField(settlement.courses, "revenue")

\* the settlement amount handleApplyEdits would give for the edit copy ec
AppliedAmount(ec) == UpdatedSettlement(settlement, ec).settlement_amount

\* C10 as stated: with a ratio >= 0, an edit session that differs from the
\* current one only in one course's revenue being larger applies to a
\* settlement amount that is not smaller.
C10_Monotone ==
    (Rendered /\ isEditing /\ settlement.union_payout_ratio >= 0) =>
        \A idx \in 1..Len(editCourses), value \in EditValues :
            value > editCourses[idx].revenue =>
                AppliedAmount(EditCourse(editCourses, idx, "revenue", value))
                    >= AppliedAmount(editCourses)

\* C13: whenever a settlement is on display the issue list is the validator's
\* result for that settlement, after a load and after applied edits alike, and
\* the validation panel is shown exactly when the validator reports an issue.
C13_IssuesOfDisplayed ==
    Rendered =>
        /\ validationIssues = validateSettlement(settlement)
        /\ ValidationPanelShown <=> validateSettlement(settlement) # <<>>

C13_Witness ==
    /\ Applied
    /\ validationIssues = <<>>
    /\ ~ValidationPanelShown
    /\ Len(settlement.courses) = 2
    /\ settlement.revenue = 2
    /\ settlement.contribution = 1

\* C17: applying a second time with the course values as the first apply left
\* them changes nothing: settlement, fullData with its summary, the cache and
\* the issue list stay as they are.
C17_ReapplyIdempotent ==
    [][(Applied /\ isEditing /\ editCourses = settlement.courses /\ handleApplyEdits)
           => UNCHANGED <<settlement, fullData, validationIssues, cache>>]_vars

C17_Witness ==
    /\ Applied
    /\ isEditing
    /\ editCourses = settlement.courses
    /\ Len(editCourses) = 2
    /\ validationIssues # <<>>
    /\ settlement.revenue_share # settlement.settlement_amount

\* what an edit session must leave alone until it is applied
DisplayedData == <<settlement, fullData, cache, validationIssues>>

\* course c2 is course c1 with at most the given field and the contribution
\* changed, the contribution being revenue - ad_cost
EditedOnly(c1, c2, field) ==
    /\ DOMAIN c2 = DOMAIN c1
    /\ \A f \in DOMAIN c1 \ {field, "contribution"} : c2[f] = c1[f]
    /\ c2.contribution = c2.revenue - c2.ad_cost

\* C28: starting an edit copies the courses and changes nothing on display;
\* handleEditCourse changes, in the edit copy alone, one course's chosen field
\* and that course's contribution; cancelling, and every step of an edit
\* session other than applying, leaves settlement, fullData, the cache and
\* the issue list as they were when editing started.
C28_CancelDiscards ==
    [][/\ handleStartEdit =>
              UNCHANGED DisplayedData /\ editCourses' = settlement.courses
       /\ handleEditCourse =>
              /\ UNCHANGED DisplayedData
              /\ Len(editCourses') = Len(editCourses)
              /\ \E idx \in 1..Len(editCourses), field \in {"revenue", "ad_cost"} :
                     /\ \A i \in 1..Len(editCourses) \ {idx} :
                            editCourses'[i] = editCourses[i]
                     /\ EditedOnly(editCourses[idx], editCourses'[idx], field)
       /\ CancelEdit => UNCHANGED DisplayedData /\ ~isEditing'
       /\ (isEditing /\ ~handleApplyEdits) => UNCHANGED DisplayedData]_vars

\* an edit session that changed a course was cancelled: the edit copy differs
\* from the courses on display, which are as loaded
C28_Witness ==
    /\ Rendered
    /\ ~isEditing
    /\ saveMessage = "none"
    /\ Len(editCourses) = 2
    /\ editCourses # settlement.courses
    /\ editCourses[2].ad_cost = 1
    /\ settlement.courses[2].ad_cost = 0
    /\ cache = Null
    /\ fullData.companies[companyId] = settlement

-----------------------------------------------------------------------------
(* Properties of the action bar, checked under SpecPage *)

\* C12 as stated: whenever an unapproved settlement is on display, handleApprove
\* can be taken.
C12_ApproveAlwaysEnabled ==
    (Rendered /\ ~isApproved) => ENABLED handleApprove

\* C12 amended: whenever an unapproved settlement is on display and no approve
\* or unapprove request is in progress, handleApprove can be taken, whether or
\* not the validator reported issues; once taken it has sent saveArchive, and
\* it goes on to approveCompany when saveArchive has answered.
C12_ApproveNotBlockedByValidation ==
    /\ (Rendered /\ ~isApproved /\ ~isApproving) => ENABLED handleApprove
    /\ approveCall = "saveArchive" => ENABLED ApproveArchiveSaved
    /\ approveCall = "approveCompany" => ENABLED ApproveCompanyDone

C12_Witness ==
    /\ Rendered
    /\ ~isApproved
    /\ validationIssues # <<>>
    /\ approveCall = "approveCompany"
    /\ savedArchive = ArchivePayload(fullData)

\* C16: approveCompany is called only from a saveArchive that has succeeded,
\* which has stored the fullData of the moment; the server's approval is set
\* only by approveCompany; and a failed saveArchive ends the handler with the
\* approval, on the server and on the page, as it was.
C16_ArchiveThenApprove ==
    [][/\ (approveCall # "none" /\ approveCall # "saveArchiveFailed"
               /\ approveCall # "unapproveCompany") => savedArchive # Null
       /\ (approveCall = "none" /\ approveCall' = "saveArchive")
              => savedArchive' = ArchivePayload(fullData)
       /\ (approveCall' = "approveCompany" /\ approveCall # "approveCompany")
              => approveCall = "saveArchive"
       /\ (serverApproved' /\ ~serverApproved) => approveCall = "approveCompany"
       /\ (approveCall = "saveArchiveFailed" /\ approveCall' # approveCall)
              => /\ approveCall' = "none"
                 /\ UNCHANGED <<serverApproved, approvalStatus>>]_vars

C16_Witness ==
    /\ Rendered
    /\ isApproved
    /\ serverApproved
    /\ saveMessage = "approved"
    /\ savedArchive = ArchivePayload(fullData)
    /\ validationIssues # <<>>

\* a saveArchive of handleSave or of handleApprove has just stored its payload
SaveArchiveStored ==
    \/ ~isSaving /\ isSaving' /\ saveCall' = "saved"
    \/ ~isApproving /\ isApproving' /\ approveCall' = "saveArchive"

\* the summary of an archive payload is the sum over its companies
SummaryOfCompanies(payload) ==
    LET ids == DOMAIN payload.companies
    IN  payload.summary =
            [total_revenue |-> SumCompanies(payload.companies, ids, "revenue"),
             total_ad_cost |-> SumCompanies(payload.companies, ids, "ad_cost"),
             total_contribution |->
                 SumCompanies(payload.companies, ids, "contribution"),
             total_settlement |->
                 SumCompanies(payload.companies, ids, "settlement_amount")]

\* C25: handleApplyEdits leaves the archive alone and sends nothing; the
\* archive is written only by the saveArchive of handleSave or handleApprove;
\* and the payload stored then carries the company's figures as displayed,
\* applied edits included, with the summary recomputed over the companies.
C25_LocalUntilSaved ==
    [][/\ handleApplyEdits => UNCHANGED <<savedArchive, saveCall, approveCall>>
       /\ savedArchive' # savedArchive => SaveArchiveStored
       /\ SaveArchiveStored =>
              /\ savedArchive' = ArchivePayload(fullData)
              /\ savedArchive'.companies[companyId] = settlement
              /\ SummaryOfCompanies(savedArchive')]_vars

\* edits that set an ad cost no loaded settlement has were applied, then saved
C25_Witness ==
    /\ Rendered
    /\ saveMessage = "saved"
    /\ savedArchive # Null
    /\ savedArchive.companies[companyId] = settlement
    /\ settlement.courses[1].ad_cost = 1
    /\ savedArchive.summary.total_ad_cost = settlement.ad_cost + OtherCompany.ad_cost

\* handleApprove or handleUnapprove has just ended in its catch
ApprovalFailedStep ==
    /\ isApproving
    /\ ~isApproving'
    /\ saveMessage' \in {"approve_failed", "unapprove_failed"}

\* handleApprove or handleUnapprove has just ended without throwing
ApprovalSucceededStep ==
    /\ isApproving
    /\ ~isApproving'
    /\ saveMessage' \in {"approved", "unapproved"}

\* C27: a handleApprove whose saveArchive or approveCompany fails and a
\* handleUnapprove whose unapproveCompany fails end with the approval status
\* as it was and a failure message; the handlers change the status only when
\* their call has succeeded, to approved from approveCompany and to unapproved
\* from unapproveCompany, the server then agreeing.
C27_FailureKeepsApproval ==
    [][/\ (isApproving /\ ~isApproving') =>
              ApprovalFailedStep \/ ApprovalSucceededStep
       /\ ApprovalFailedStep =>
              /\ UNCHANGED approvalStatus
              /\ saveMessage' = IF approveCall = "unapproveCompany"
                                   THEN "unapprove_failed" ELSE "approve_failed"
       /\ ApprovalSucceededStep =>
              \/ /\ approveCall = "approveCompany"
                 /\ approvalStatus' = "approved"
                 /\ serverApproved'
              \/ /\ approveCall = "unapproveCompany"
                 /\ approvalStatus' = "unapproved"
                 /\ ~serverApproved'
       /\ (approvalStatus' # approvalStatus /\ isApproving /\ ~loading
               /\ ~archivePending) => ApprovalSucceededStep]_vars

\* an unapprove has failed on an approved settlement, which stays approved
C27_Witness ==
    /\ Rendered
    /\ saveMessage = "unapprove_failed"
    /\ isApproved
    /\ ~isApproving
    /\ approveCall = "none"

\* C22 as stated: while the company's approval status is approved no step of
\* the page changes the settlement, fullData or the session cache (applied
\* edits never take effect on an approved settlement), and editing can be
\* started only while it is not approved.
C22_ApprovedNotModified ==
    [][/\ isApproved => UNCHANGED <<settlement, fullData, cache>>
       /\ (isEditing' /\ ~isEditing) => ~isApproved]_vars

-----------------------------------------------------------------------------
(* Properties of loadData, checked under SpecLoad and SpecNavigate *)

\* the effect has just run
LoadEffectStep == ~loadStarted /\ loadStarted'

\* a loadArchive asked for as the second source has just been answered
SecondSourceStep == loading /\ ~loading' /\ loadStarted

\* the approval status asked for after the cache was shown has just arrived
StatusAnswerStep ==
    \E l \in loadsInFlight : l.source = "cache" /\ l \notin loadsInFlight'

\* C26: the cache is shown exactly when it is of the period of the URL and
\* holds the company, and then at once; otherwise the archive of the period
\* is asked and shown when it holds the company; when neither yields the
\* company no settlement is on display, the error is, and loading has ended;
\* what loadArchive answers after the cache was shown is never an error.
C26_SourceOrder ==
    /\ [](loadStarted =>
             /\ loading <=> \E l \in loadsInFlight : l.source = "archive"
             /\ ~loading => (error # "none" <=> settlement = Null)
             /\ Rendered => fullData.period = routePeriod
                            /\ settlement = fullData.companies[companyId])
    /\ [][/\ LoadEffectStep =>
                 IF CacheUsableFor(routePeriod)
                     THEN fullData' = cache /\ ~loading' /\ error' = "none"
                     ELSE fullData' = Null
          /\ SecondSourceStep =>
                 /\ ~CacheUsableFor(routePeriod)
                 /\ \/ fullData' \in ArchiveData(routePeriod) /\ error' = "none"
                    \/ fullData' = Null /\ error' = "not_found"
          /\ StatusAnswerStep =>
                 UNCHANGED <<loading, error, settlement, fullData>>]_vars

\* the cache holds the company for another period and is left aside: the
\* archive of the URL's period was asked and did not have the company
C26_Witness ==
    /\ loadStarted
    /\ ~loading
    /\ error = "not_found"
    /\ settlement = Null
    /\ cache # Null
    /\ companyId \in DOMAIN cache.companies
    /\ cache.period # routePeriod
    /\ routePeriod # ""

\* the load started for the period of the URL has run and awaits nothing
CurrentLoadFinished ==
    /\ loadStarted
    /\ ~loading
    /\ \A l \in loadsInFlight : l.period # routePeriod

\* C29 as stated, for the settlement: once the load for the period of the URL
\* has finished, a settlement on display is the company's settlement of that
\* period, whatever loads started for earlier periods are still to answer or
\* have answered since.
C29_OnlyCurrentPeriod ==
    (CurrentLoadFinished /\ Rendered) =>
        /\ fullData.period = routePeriod
        /\ settlement = fullData.companies[companyId]

-----------------------------------------------------------------------------
(* Properties of the list page, checked under SpecList *)

\* a parsePdf has just failed: the request is gone and an error is shown
ParseFailedStep == parseInFlight' < parseInFlight /\ listError' # "none"

C15_OneParseAtATime ==
    /\ parseInFlight <= 1
    /\ isUploading <=> parseInFlight = 1
    /\ isUploading => ~ENABLED handleUpload

C15_Witness ==
    /\ isUploading
    /\ parseInFlight = 1
    /\ listData # Null
    /\ listError = "none"

-----------------------------------------------------------------------------
(* Properties of the whole list page, checked under SpecListPage *)

\* handleSend has just called sendBulkEmail
BulkEmailSent == bulkCall' = "pending" /\ bulkCall # "pending"

\* C23 as stated: every sendBulkEmail call carries a set of ids that is not
\* empty and each of which is, at the moment of the call, approved in the list
\* page's approval status, not the operating entity plusx, and with a contact
\* email.
C23_BulkOnlyApproved ==
    [][BulkEmailSent =>
           /\ bulkRecipients' # {}
           /\ \A id \in bulkRecipients' :
                  /\ ListApproved(id)
                  /\ id # "plusx"
                  /\ ContactEmail(id) # ""]_vars

\* a parsePdf has just succeeded
UploadSucceededStep == parseInFlight' < parseInFlight /\ listError' = listError

\* C24 as stated: a successful upload leaves every company unapproved, and the
\* answer to a getApprovalStatus sent before the last upload marks no company
\* approved that was not.
C24_UploadResetsApproval ==
    [][/\ UploadSucceededStep => listApprovalStatus' = {}
       /\ statusStale' < statusStale =>
              listApprovalStatus' \subseteq listApprovalStatus]_vars

-----------------------------------------------------------------------------
(* Properties of the engine, checked under SpecEngine *)

\* the targets that are partners: a cost aimed at one is direct
PartnerTargets == {t \in KnownTargets : TargetMapping[t] = "direct"}

\* C18: a cost line whose target field names a known partner is direct to that
\* partner whatever its label matches; the patterns decide only for a line
\* without a known target.
C18_TargetPrecedence ==
    costLine # Null =>
        /\ costLine.target \in PartnerTargets =>
               classification = [type |-> "direct", target |-> costLine.target]
        /\ (costLine.target \notin KnownTargets /\ FirstMatch(costLine.label) # 0) =>
               classification.target =
                   CampaignPatterns[FirstMatch(costLine.label)].default_target

C18_Witness ==
    /\ costLine # Null
    /\ costLine.target = "BKID"
    /\ costLine.label = <<"ko_blsn", "ko_sandoll">>
    /\ classification = [type |-> "direct", target |-> "BKID"]

\* C19 as stated: for a line without a known target the result is the target
\* of the first pattern in the listed order that matches the label, and for
\* the campaign IP_쉐어엑스_산돌_전환 that target is SANDOLL.
C19_FirstMatchSandoll ==
    (costLine # Null /\ costLine.target \notin KnownTargets) =>
        /\ FirstMatch(costLine.label) # 0 =>
               classification.target =
                   CampaignPatterns[FirstMatch(costLine.label)].default_target
        /\ costLine.label = ExampleCampaign => classification.target = "SANDOLL"

\* the apportionment ran and did not fail
Apportioned == apportionment.status = "done"

indirectShares == apportionment.shares

\* C20: every non-excluded course is attributed pool / N, N the number of
\* non-excluded courses, which in won is within half a won of it; a partner
\* owning C of them is attributed pool / N x C; and the shares of all courses
\* sum to the pool.
C20_EqualSplit ==
    (Apportioned /\ NonExcluded(courseList) # {}) =>
        LET N == Cardinality(NonExcluded(courseList))
        IN  /\ \A i \in NonExcluded(courseList) :
                   /\ SameAmount(indirectShares[i], [num |-> indirectPool, den |-> N])
                   /\ 2 * Abs(MathRound(indirectShares[i].num, indirectShares[i].den) * N
                                  - indirectPool) <= N
            /\ \A p \in Partners :
                   LET C == Cardinality({i \in NonExcluded(courseList) :
                                            courseList[i].owner = p})
                   IN  SameAmount(PartnerIndirect(indirectShares, courseList, p),
                                  [num |-> indirectPool * C, den |-> N])
            /\ SameAmount(SumShares(indirectShares, 1..Len(courseList)),
                          [num |-> indirectPool, den |-> 1])

C20_Witness ==
    /\ Apportioned
    /\ indirectPool = 7
    /\ Len(courseList) = 2
    /\ Cardinality(NonExcluded(courseList)) = 2
    /\ courseList[1].owner # courseList[2].owner
    /\ indirectShares[1] = [num |-> 7, den |-> 2]

-----------------------------------------------------------------------------
(* Properties of the ledger, checked under SpecLedger *)

\* the course list with course i not excluded
Included(cs, i) == [cs EXCEPT ![i].excluded = FALSE]

\* C21 as stated: an excluded course is not counted in the denominator of the
\* indirect apportionment and is attributed an indirect cost of 0, while its
\* revenue and its direct cost are attributed as they would be were it not
\* excluded.
C21_ExclusionKeepsDirect ==
    ledger.status = "done" =>
        \A i \in 1..Len(ledgerCourses) :
            ledgerCourses[i].excluded =>
                LET included == Ledger(ledgerPool, Included(ledgerCourses, i))
                IN  /\ Denominator(ledgerCourses)
                           = Denominator(Included(ledgerCourses, i)) - 1
                    /\ ledger.lines[i].indirect_cost = Zero
                    /\ ledger.lines[i].revenue = included.lines[i].revenue
                    /\ ledger.lines[i].direct_cost = included.lines[i].direct_cost

-----------------------------------------------------------------------------
(* Properties of the requests of both pages, checked under SpecRequestsFair *)

\* C30: each in-progress flag is set exactly while its request is awaited, so
\* that the step in which the request settles, answered or failed, clears
\* it; and, every request settling in the end, a flag that is set is cleared
\* in the end.
C30_FlagsCleared ==
    /\ [](/\ isUploading <=> parseInFlight > 0
          /\ listIsSaving <=> listSaveCall # "none"
          /\ isSending <=> bulkCall = "pending"
          /\ isSaving <=> saveCall # "none"
          /\ isApproving <=> approveCall # "none"
          /\ isSendingEmail <=> emailCall = "pending")
    /\ (isUploading ~> ~isUploading)
    /\ (listIsSaving ~> ~listIsSaving)
    /\ (isSending ~> ~isSending)
    /\ (isSaving ~> ~isSaving)
    /\ (isApproving ~> ~isApproving)
    /\ (isSendingEmail ~> ~isSendingEmail)

\* an upload has failed and a bulk email has been answered, both flags clear
C30_Witness ==
    /\ listError \in UploadErrors
    /\ ~isUploading
    /\ parseInFlight = 0
    /\ bulkResult
    /\ ~isSending
    /\ bulkRecipients # {}

====
